---- MODULE Spec2Model ----
(***************************************************************************)
(* Model of the Kommo webhook relay (src/server.js).                       *)
(*                                                                         *)
(* One Express process serves concurrent requests on a single event loop:  *)
(* the synchronous code between two awaits of a handler is one atomic      *)
(* step, and the handlers interleave at their awaits.  The lowdb store is  *)
(* one in-memory object (db.data) shared by all handlers and one file      *)
(* (db.json) written through a serialising writer.                         *)
(*                                                                         *)
(* Encoding of JavaScript values.  An optional value (a key that may be    *)
(* missing, an undefined variable) is a sequence of length 0 (missing) or  *)
(* 1 (present).  E-mail addresses and phone numbers are sequences of       *)
(* one-character strings, so that trimming, lowercasing and digit          *)
(* stripping are computed character by character.  SHA-256 and HMAC are    *)
(* modelled as collision-free constructors that keep their input.          *)
(***************************************************************************)
EXTENDS Integers, Sequences, FiniteSets, TLC

\* ------------------------------------------------------------------ bounds

\* Number of requests (webhook or admin) the environment sends in one run.
MaxProcs == 2

\* Largest amount of custom_fields.amount the environment sends (0..MaxAmount).
MaxAmount == 2

Procs == 1..MaxProcs

\* ------------------------------------------------------- optional values

Missing == <<>>
Some(v) == <<v>>
Has(o) == o # <<>>
Val(o) == o[1]

\* ---------------------------------------------------------------- strings

Blank == " "
Digits == {"0", "1", "2", "3", "4", "5", "6", "7", "8", "9"}

\* String.prototype.toLowerCase on one character.
LowerChar(c) == IF c = "A" THEN "a" ELSE IF c = "B" THEN "b" ELSE c

\* contact.email.trim().toLowerCase()
RECURSIVE TrimLeft(_)
TrimLeft(s) == IF s # <<>> /\ Head(s) = Blank THEN TrimLeft(Tail(s)) ELSE s

RECURSIVE TrimRight(_)
TrimRight(s) ==
    IF s # <<>> /\ s[Len(s)] = Blank THEN TrimRight(SubSeq(s, 1, Len(s) - 1)) ELSE s

Trim(s) == TrimRight(TrimLeft(s))

ToLowerCase(s) == [i \in 1..Len(s) |-> LowerChar(s[i])]

\* contact.phone.replace(/\D+/g, '')
RECURSIVE StripNonDigits(_)
StripNonDigits(s) ==
    IF s = <<>> THEN <<>>
    ELSE IF Head(s) \in Digits THEN <<Head(s)>> \o StripNonDigits(Tail(s))
    ELSE StripNonDigits(Tail(s))

\* crypto.createHash('sha256').update(x).digest('hex')
Sha256Hex(s) == <<"sha256:">> \o s

\* JavaScript truthiness of an optional string / of an optional number.
TruthyStr(o) == Has(o) /\ Val(o) # <<>>
TruthyNum(o) == Has(o) /\ Val(o) # 0

\* --------------------------------------------------------- request bodies

KOMMO_SECRET == "kommo-secret"

\* crypto.createHmac('sha256', key).update(JSON.stringify(body)).digest('hex')
HmacHex(key, body) == <<key, body>>

\* The value of the X-Hub-Signature header a sender may attach to a body.
FlipType(b) ==
    [b EXCEPT !.type = IF b.type = Some("lead") THEN Some("purchase") ELSE Some("lead")]

SigOf(kind, body) ==
    CASE kind = "valid" -> Some(HmacHex(KOMMO_SECRET, body))
      [] kind = "wrongKey" -> Some(HmacHex("other-secret", body))
      [] kind = "otherBody" -> Some(HmacHex(KOMMO_SECRET, FlipType(body)))
      [] OTHER -> Missing

SigKinds == {"valid", "wrongKey", "otherBody", "missing"}

Types == {Missing, Some("lead"), Some("purchase"), Some("Lead"), Some("PURCHASE"), Some("")}

Emails == {<<>>, <<"a">>, <<" ", "A", " ">>, <<" ">>}
Phones == {<<>>, <<"1", "2">>, <<"+", "1", "-", "2">>, <<"-">>}
Currencies == {"EUR"}
ClientIds == {"c1"}

Opt(S) == {Missing} \cup {Some(v) : v \in S}

Contacts == Opt([email : Opt(Emails), phone : Opt(Phones)])

CustomFields ==
    Opt([amount : Opt(0..MaxAmount), currency : Opt(Currencies), client_id : Opt(ClientIds)])

SomeContact == Some([email |-> Some(<<" ", "A", " ">>), phone |-> Some(<<"+", "1", "-", "2">>)])
SomeFields == Some([amount |-> Some(1), currency |-> Missing, client_id |-> Missing])

Body(t, c, f) == [type |-> t, contact |-> c, custom_fields |-> f]

Signed(b, kind) == [body |-> b, sig |-> SigOf(kind, b)]

\* Requests of the control-flow specification: every type with a contact
\* object, and classified and unclassified types without one, correctly signed;
\* and badly signed or unsigned requests with a classified, an unclassified and
\* a contact-less body.
CoreBodies ==
    {Body(t, SomeContact, SomeFields) : t \in Types}
        \cup {Body(Some(t), Missing, SomeFields) : t \in {"lead", "purchase", "Lead"}}

BadSigBodies ==
    {Body(Some("lead"), SomeContact, SomeFields),
     Body(Some("Lead"), SomeContact, SomeFields),
     Body(Some("purchase"), Missing, SomeFields)}

CoreInputs ==
    {Signed(b, "valid") : b \in CoreBodies}
        \cup {Signed(b, k) : b \in BadSigBodies, k \in SigKinds \ {"valid"}}

\* Requests sent while forwarding is disabled: of each kind one.
DisabledInputs ==
    {Signed(Body(Some("lead"), SomeContact, SomeFields), "valid"),
     Signed(Body(Some("purchase"), SomeContact, SomeFields), "valid"),
     Signed(Body(Some("PURCHASE"), SomeContact, SomeFields), "valid"),
     Signed(Body(Some("lead"), Missing, SomeFields), "valid"),
     Signed(Body(Some("lead"), SomeContact, SomeFields), "wrongKey"),
     Signed(Body(Some("purchase"), SomeContact, SomeFields), "missing")}

\* Requests of the payload specification: correctly signed lead events over
\* every contact, purchase events over every custom_fields value, one
\* unclassified event and one unsigned event.
WithClientId == Some([amount |-> Some(1), currency |-> Missing, client_id |-> Some("c1")])

PayloadBodies ==
    {Body(Some("lead"), c, SomeFields) : c \in Contacts}
        \cup {Body(Some("purchase"), SomeContact, f) :
                 f \in {g \in CustomFields : g = Missing \/ g = WithClientId
                                                \/ Val(g).client_id = Missing}}
        \cup {Body(Some("Lead"), SomeContact, SomeFields)}

PayloadInputs ==
    {Signed(b, "valid") : b \in PayloadBodies}
        \cup {Signed(Body(Some("lead"), SomeContact, SomeFields), "missing")}

\* ------------------------------------------------------- pure functions

\* Faulty variant: the type is matched without regard to case.
mapEventNameLoose(type) ==
    IF type \in {Some("lead"), Some("Lead")} THEN Some("Lead")
    ELSE IF type \in {Some("purchase"), Some("PURCHASE")} THEN Some("Purchase")
    ELSE Missing

\* mapEventName(type)
mapEventName(type) ==
    IF type = Some("lead") THEN Some("Lead")
    ELSE IF type = Some("purchase") THEN Some("Purchase")
    ELSE Missing

\* Faulty variant: the digest is compared without regard to the key.
verifySignatureAnyKey(body, sig) == Has(sig) /\ Val(sig)[2] = body

\* verifySignature(body, sig); sig is the header or '' (Missing).
verifySignature(body, sig) == Some(HmacHex(KOMMO_SECRET, body)) = sig

\* Faulty variant (the raw-identity versions of the handler): the contact
\* values are forwarded as received.
BuildUserDataRaw(contact) ==
    [em |-> IF TruthyStr(contact.email) THEN contact.email ELSE Missing,
     ph |-> IF TruthyStr(contact.phone) THEN contact.phone ELSE Missing]

\* user_data of the handler: hashed identity attributes.
BuildUserData(contact) ==
    [em |-> IF TruthyStr(contact.email)
            THEN Some(Sha256Hex(ToLowerCase(Trim(Val(contact.email)))))
            ELSE Missing,
     ph |-> IF TruthyStr(contact.phone)
            THEN Some(Sha256Hex(StripNonDigits(Val(contact.phone))))
            ELSE Missing]

NoCustomData == [value |-> Missing, currency |-> Missing]

\* custom_data of the handler: commerce attributes.
BuildCustomData(custom_fields) ==
    IF Has(custom_fields) /\ TruthyNum(Val(custom_fields).amount)
    THEN [value |-> Val(custom_fields).amount,
          currency |-> IF Has(Val(custom_fields).currency)
                       THEN Val(custom_fields).currency
                       ELSE Some("USD")]
    ELSE NoCustomData

\* custom_fields?.client_id
ClientIdOf(custom_fields) ==
    IF Has(custom_fields) THEN Val(custom_fields).client_id ELSE Missing

\* Body of the POST of sendToMeta (event_time, a wall-clock reading, left out).
metaBody(eventName, user_data, custom_data) ==
    [event_name |-> eventName, user_data |-> user_data, custom_data |-> custom_data]

ToLowerName(eventName) == IF eventName = "Lead" THEN "lead" ELSE "purchase"

\* Body of the POST of sendToGA4.
GA4Payload(eventName, custom_data, clientId) ==
    [client_id |-> IF Has(clientId) THEN Val(clientId) ELSE "555.555",
     name |-> ToLowerName(eventName),
     value |-> IF TruthyNum(custom_data.value) THEN Val(custom_data.value) ELSE 0,
     currency |-> IF Has(custom_data.currency) THEN Val(custom_data.currency) ELSE "USD"]

\* ------------------------------------------------------ outbound results

\* What axios.post ends with: a 2xx response, a non-2xx response (thrown with
\* err.response set), or no response at all (thrown without err.response).
OkStatuses == {200}
FailStatuses == {500}
Outcomes ==
    {[kind |-> "ok", status |-> s] : s \in OkStatuses}
        \cup {[kind |-> "http", status |-> s] : s \in FailStatuses}
        \cup {[kind |-> "network", status |-> 0]}

\* The payload specification lets each call succeed or fail without a response.
PayloadOutcomes == {o \in Outcomes : o.kind # "http"}

\* The status variable after the try/catch around one send:
\*   resp.status on success, err.response?.status || 'error' on failure.
ErrorSentinel == Missing

\* Faulty variant: every failure is recorded as 'error'.
StatusAfterSentinel(o) == IF o.kind = "ok" THEN Some(o.status) ELSE ErrorSentinel

StatusAfter(o) == IF o.kind = "network" THEN ErrorSentinel ELSE Some(o.status)

\* ------------------------------------------------------------------- state

VARIABLES
    file,       \* db.json: Missing before the first write, else Some(data)
    dbData,     \* db.data, the one in-memory object every handler uses
    writeQ,     \* writes handed to the file writer, oldest first
    procs,      \* the requests: procs[r] is the handler's position and locals
    metaCalls,  \* history: per request, the POSTs issued to Meta CAPI (destination A)
    ga4Calls,   \* history: per request, the POSTs issued to GA4 (destination B)
    pushes,     \* history: per request, the records pushed onto db.data.logs
    clock       \* logical time of new Date()

vars == <<file, dbData, writeQ, procs, metaCalls, ga4Calls, pushes, clock>>

\* db.data ||= { logs: [], config: { enabled: true } }
DefaultData == [logs |-> <<>>, enabled |-> TRUE]

NoResponse == [status |-> 0, body |-> "none"]

NoOutcome == [kind |-> "none", status |-> 0]

NoUserData == [em |-> Missing, ph |-> Missing]

IdleProc ==
    [kind |-> "none", pc |-> "idle",
     body |-> Body(Missing, Missing, Missing), sig |-> Missing,
     eventName |-> Missing, user_data |-> NoUserData, custom_data |-> NoCustomData,
     metaStatus |-> ErrorSentinel, ga4Status |-> ErrorSentinel,
     cfgValue |-> "undefined", resp |-> NoResponse, view |-> Missing,
     \* history: the enabled flag the handler read, and how each call ended
     enabledRead |-> Missing, metaOutcome |-> NoOutcome, ga4Outcome |-> NoOutcome]

Init ==
    /\ file = Missing
    /\ dbData = Missing
    /\ writeQ = <<>>
    /\ procs = [r \in Procs |-> IdleProc]
    /\ metaCalls = [r \in Procs |-> <<>>]
    /\ ga4Calls = [r \in Procs |-> <<>>]
    /\ pushes = [r \in Procs |-> <<>>]
    /\ clock = 0

History == <<metaCalls, ga4Calls, pushes, clock>>

\* history: config.enabled as db.json (f) and db.data (d) hold it at the moment
\* a call is issued.
StoreEnabled(f, d) == [file |-> Val(f).enabled, mem |-> Val(d).enabled]

\* ----------------------------------------------------------------- initDb

\* Request slots are taken in order: slot r is the r-th request to arrive.
NextSlot(r) ==
    /\ procs[r].pc = "idle"
    /\ \A q \in Procs : q < r => procs[q].pc # "idle"

\* A request arrives and its handler runs to `await db.read()`.
Receive(r, kind) ==
    /\ NextSlot(r)
    /\ procs' = [procs EXCEPT ![r] = [IdleProc EXCEPT !.kind = kind, !.pc = "read"]]
    /\ UNCHANGED <<file, dbData, writeQ, History>>

ReceiveWebhook(r) == Receive(r, "webhook")
ReceiveConfig(r) == Receive(r, "config")
ReceiveLogs(r) == Receive(r, "logs")

\* initDb, from the completion of db.read() to `await db.write()`: db.data is
\* replaced by the file's content (null when there is no file), defaulted, and
\* its serialisation handed to the writer.
initDb(r) ==
    /\ procs[r].pc = "read"
    /\ LET data == IF Has(file) THEN file ELSE Some(DefaultData)
       IN /\ dbData' = data
          /\ writeQ' = Append(writeQ, [req |-> r, content |-> data])
    /\ procs' = [procs EXCEPT ![r].pc = "initWrite"]
    /\ UNCHANGED <<file, History>>

\* The writer finishes the oldest write, which is r's: the file holds it and
\* r's handler resumes.
WriteDone(r) ==
    /\ writeQ # <<>>
    /\ Head(writeQ).req = r
    /\ file' = Head(writeQ).content
    /\ writeQ' = Tail(writeQ)

\* Faulty variant: the enabled flag is not consulted.
ForwardingAlways == TRUE

\* db.data.config.enabled, as a resumed handler reads it.
ForwardingEnabled == Val(dbData).enabled

\* ---------------------------------------------------- POST /api/webhook/kommo

\* The handler resumes after `await initDb()`.  req.body and the signature
\* header are first read here, so this is where the model draws them (in).
AfterInit(r) ==
    /\ procs[r].kind = "webhook"
    /\ procs[r].pc = "initWrite"
    /\ WriteDone(r)

Finish(r, in, name, status, text) ==
    procs' = [procs EXCEPT ![r].pc = "done", ![r].body = in.body, ![r].sig = in.sig,
                           ![r].eventName = name,
                           ![r].enabledRead = Some(Val(dbData).enabled),
                           ![r].resp = [status |-> status, body |-> text]]

\* if (!db.data.config.enabled) return res.status(503).send('Webhook disabled')
Disabled503(r, in) ==
    /\ AfterInit(r)
    /\ ~ForwardingEnabled
    /\ Finish(r, in, Missing, 503, "Webhook disabled")
    /\ UNCHANGED <<dbData, History>>

\* if (!verifySignature(req.body, sig)) return res.status(403).send(...)
Reject403(r, in) ==
    /\ AfterInit(r)
    /\ ForwardingEnabled
    /\ ~verifySignature(in.body, in.sig)
    /\ Finish(r, in, Missing, 403, "Invalid signature")
    /\ UNCHANGED <<dbData, History>>

Authenticated(r, in) ==
    /\ AfterInit(r)
    /\ ForwardingEnabled
    /\ verifySignature(in.body, in.sig)

\* if (!eventName) return res.status(200).send('Ignored event')
Ignore200(r, in) ==
    /\ Authenticated(r, in)
    /\ ~Has(mapEventName(in.body.type))
    /\ Finish(r, in, Missing, 200, "Ignored event")
    /\ UNCHANGED <<dbData, History>>

Classified(r, in) ==
    /\ Authenticated(r, in)
    /\ Has(mapEventName(in.body.type))

\* What becomes of a request whose async handler throws: Express 4 leaves the
\* rejected promise unhandled and sends nothing; Express 5 passes the error to
\* its default error handler, which answers 500.
CrashResponses == {NoResponse, [status |-> 500, body |-> "Internal Server Error"]}

\* contact.email with contact undefined: a TypeError rejects the handler's
\* promise.
Crash(r, in) ==
    /\ Classified(r, in)
    /\ ~Has(in.body.contact)
    /\ \E resp \in CrashResponses :
          procs' = [procs EXCEPT ![r].pc = "crashed", ![r].body = in.body,
                                 ![r].sig = in.sig, ![r].resp = resp,
                                 ![r].eventName = mapEventName(in.body.type),
                                 ![r].enabledRead = Some(Val(dbData).enabled)]
    /\ UNCHANGED <<dbData, History>>

\* user_data and custom_data are built and sendToMeta is called.
DispatchMeta(r, in) ==
    /\ Classified(r, in)
    /\ Has(in.body.contact)
    /\ LET b == in.body
           name == mapEventName(b.type)
           ud == BuildUserData(Val(b.contact))
           cd == BuildCustomData(b.custom_fields)
       IN /\ procs' = [procs EXCEPT ![r].pc = "meta", ![r].body = b, ![r].sig = in.sig,
                                    ![r].eventName = name,
                                    ![r].user_data = ud, ![r].custom_data = cd,
                                    ![r].enabledRead = Some(Val(dbData).enabled)]
          /\ metaCalls' = [metaCalls EXCEPT
                               ![r] = Append(@, [payload |-> metaBody(Val(name), ud, cd),
                                                 ga4Sent |-> Len(ga4Calls[r]),
                                                 store |-> StoreEnabled(file', dbData)])]
    /\ UNCHANGED <<dbData, ga4Calls, pushes, clock>>

\* The call to Meta ends with outcome o; metaStatus is set in the try or in
\* the catch.
MetaDone(r, o) ==
    /\ procs[r].pc = "meta"
    /\ procs' = [procs EXCEPT ![r].pc = "metaDone", ![r].metaStatus = StatusAfter(o),
                              ![r].metaOutcome = o]
    /\ UNCHANGED <<file, dbData, writeQ, History>>

\* Faulty variant: sendToGA4 is called without awaiting sendToMeta.
GA4MayStartEarly(r) == procs[r].pc \in {"meta", "metaDone"}

\* Where the handler stands when it calls sendToGA4: past the try/catch around
\* `await sendToMeta(...)`.  (The call follows the end of that await in the same
\* turn of the event loop; the model lets other handlers run in between, which
\* only adds behaviours.)
GA4MayStart(r) == procs[r].pc = "metaDone"

sendToGA4(r) ==
    /\ GA4MayStart(r)
    /\ LET p == procs[r]
       IN ga4Calls' = [ga4Calls EXCEPT
                          ![r] = Append(@, [payload |-> GA4Payload(Val(p.eventName),
                                                                   p.custom_data,
                                                                   ClientIdOf(p.body.custom_fields)),
                                            metaPending |-> p.pc = "meta",
                                            store |-> StoreEnabled(file, dbData)])]
    /\ procs' = [procs EXCEPT ![r].pc = "ga4"]
    /\ UNCHANGED <<file, dbData, writeQ, metaCalls, pushes, clock>>

\* The record the handler pushes.
LogRecord(r, ga4Status) ==
    [timestamp |-> clock, type |-> Val(procs[r].eventName),
     metaStatus |-> procs[r].metaStatus, ga4Status |-> ga4Status]

\* The call to GA4 ends with outcome o; ga4Status is set, the record is pushed
\* onto db.data.logs and db.write() is called.
GA4Done(r, o) ==
    /\ procs[r].pc = "ga4"
    /\ LET rec == LogRecord(r, StatusAfter(o))
           data == [Val(dbData) EXCEPT !.logs = Append(@, rec)]
       IN /\ procs' = [procs EXCEPT ![r].pc = "logWrite", ![r].ga4Status = StatusAfter(o),
                                    ![r].ga4Outcome = o]
          /\ dbData' = Some(data)
          /\ writeQ' = Append(writeQ, [req |-> r, content |-> Some(data)])
          /\ pushes' = [pushes EXCEPT ![r] = Append(@, rec)]
    /\ clock' = clock + 1
    /\ UNCHANGED <<file, metaCalls, ga4Calls>>

\* The write of the log ends: res.json({ success: true })
Success200(r) ==
    /\ procs[r].kind = "webhook"
    /\ procs[r].pc = "logWrite"
    /\ WriteDone(r)
    /\ procs' = [procs EXCEPT ![r].pc = "done",
                              ![r].resp = [status |-> 200, body |-> "success"]]
    /\ UNCHANGED <<dbData, History>>

\* ------------------------------------------------------------ admin surface

LogsWindow == 100

\* db.data.logs.slice(-100)
LastLogs(logs) ==
    IF Len(logs) <= LogsWindow THEN logs
    ELSE SubSeq(logs, Len(logs) - LogsWindow + 1, Len(logs))

AdminView(logs) == Some([enabled |-> Val(dbData).enabled, logs |-> logs])

\* GET /admin/logs
LogsDone(r) ==
    /\ procs[r].kind = "logs"
    /\ procs[r].pc = "initWrite"
    /\ WriteDone(r)
    /\ procs' = [procs EXCEPT ![r].pc = "done",
                              ![r].resp = [status |-> 200, body |-> "json"],
                              ![r].view = AdminView(LastLogs(Val(dbData).logs))]
    /\ UNCHANGED <<dbData, History>>

\* The value of req.body.enabled of POST /admin/config, and its coercion !!v.
ConfigValues == {"true", "false", "0", "on"}
Coerce(v) == v \in {"true", "on"}

\* POST /admin/config, from the end of initDb to `await db.write()`; the body
\* is first read here.
ConfigSet(r, v) ==
    /\ procs[r].kind = "config"
    /\ procs[r].pc = "initWrite"
    /\ writeQ # <<>>
    /\ Head(writeQ).req = r
    /\ file' = Head(writeQ).content
    /\ LET data == [Val(dbData) EXCEPT !.enabled = Coerce(v)]
       IN /\ dbData' = Some(data)
          /\ writeQ' = Append(Tail(writeQ), [req |-> r, content |-> Some(data)])
    /\ procs' = [procs EXCEPT ![r].pc = "cfgWrite", ![r].cfgValue = v]
    /\ UNCHANGED History

\* res.json({ enabled: db.data.config.enabled })
ConfigDone(r) ==
    /\ procs[r].kind = "config"
    /\ procs[r].pc = "cfgWrite"
    /\ WriteDone(r)
    /\ procs' = [procs EXCEPT ![r].pc = "done",
                              ![r].resp = [status |-> 200, body |-> "json"],
                              ![r].view = AdminView(<<>>)]
    /\ UNCHANGED <<dbData, History>>

\* ------------------------------------------------------------ specifications

\* The webhook handler over the requests `inputs` and call outcomes `outs`.
Webhook(r, inputs, outs) ==
    \/ ReceiveWebhook(r)
    \/ initDb(r)
    \/ \E in \in inputs :
          \/ Reject403(r, in)
          \/ Ignore200(r, in)
          \/ Crash(r, in)
          \/ DispatchMeta(r, in)
    \/ \E o \in outs : MetaDone(r, o)
    \/ sendToGA4(r)
    \/ \E o \in outs : GA4Done(r, o)
    \/ Success200(r)

Admin(r) ==
    \/ ReceiveConfig(r)
    \/ \E v \in ConfigValues : ConfigSet(r, v)
    \/ ConfigDone(r)
    \/ ReceiveLogs(r)
    \/ LogsDone(r)

Next ==
    \E r \in Procs :
        \/ Webhook(r, CoreInputs, Outcomes)
        \/ \E in \in DisabledInputs : Disabled503(r, in)
        \/ Admin(r)

Spec == Init /\ [][Next]_vars

\* Two webhook requests, forwarding enabled throughout (no admin request).
PairProcs == {1, 2}

NextPayload == \E r \in PairProcs : Webhook(r, PayloadInputs, PayloadOutcomes)

SpecPayload == Init /\ [][NextPayload]_vars

\* One step of request r's handler after its arrival: the completion of a
\* read or write of db.json, or of an outbound call, and the code that runs on
\* it.
Step(r) ==
    \/ initDb(r)
    \/ \E in \in CoreInputs :
          \/ Reject403(r, in)
          \/ Ignore200(r, in)
          \/ Crash(r, in)
          \/ DispatchMeta(r, in)
    \/ \E in \in DisabledInputs : Disabled503(r, in)
    \/ \E o \in Outcomes : MetaDone(r, o)
    \/ sendToGA4(r)
    \/ \E o \in Outcomes : GA4Done(r, o)
    \/ Success200(r)
    \/ \E v \in ConfigValues : ConfigSet(r, v)
    \/ ConfigDone(r)
    \/ LogsDone(r)

\* Every read and write of db.json completes, every outbound call completes or
\* fails, and the event loop resumes the handler that awaits it.
Fairness == \A r \in Procs : WF_vars(Step(r))

SpecLive == Init /\ [][Next]_vars /\ Fairness

\* ------------------------------------------------------------------ claims

Webhooks == {r \in Procs : procs[r].kind = "webhook"}

\* The handler has run to its end: it answered, or its promise was rejected.
Ended(r) == procs[r].pc \in {"done", "crashed"}

\* The request's signature header is the HMAC-SHA256 hex digest of its body
\* under the shared secret.
SignatureValid(r) ==
    /\ Has(procs[r].sig)
    /\ Val(procs[r].sig) = HmacHex(KOMMO_SECRET, procs[r].body)

ReadEnabled(r) == procs[r].enabledRead = Some(TRUE)
ReadDisabled(r) == procs[r].enabledRead = Some(FALSE)

LeadOrPurchase(r) == procs[r].body.type \in {Some("lead"), Some("purchase")}

\* The request caused no outbound call and no log record.
NoEffects(r) == metaCalls[r] = <<>> /\ ga4Calls[r] = <<>> /\ pushes[r] = <<>>

Answer(r, status, text) == procs[r].resp = [status |-> status, body |-> text]

\* C1 as stated: a request whose signature is missing or wrong is answered 403
\* and causes no outbound call and no log record, whatever the store holds
\* (forwarding disabled included).
C1_BadSignature403InEveryState ==
    \A r \in Webhooks :
        Ended(r) /\ ~SignatureValid(r) =>
            Answer(r, 403, "Invalid signature") /\ NoEffects(r)

\* C1 amended: a request whose signature is missing or wrong causes no
\* outbound call and no log record; it is answered 403 when the handler read
\* enabled = true, and 503 (the disabled response, which comes first) when it
\* read enabled = false.
C1_BadSignatureRejected ==
    \A r \in Webhooks :
        Ended(r) /\ ~SignatureValid(r) =>
            /\ NoEffects(r)
            /\ ReadEnabled(r) => Answer(r, 403, "Invalid signature")
            /\ ReadDisabled(r) => Answer(r, 503, "Webhook disabled")
            /\ ReadEnabled(r) \/ ReadDisabled(r)

\* A request signed under another key has been answered 403.
C1_Witness ==
    \E r \in Webhooks :
        /\ Ended(r) /\ ReadEnabled(r)
        /\ Has(procs[r].sig) /\ ~SignatureValid(r)
        /\ Val(procs[r].sig)[2] = procs[r].body
        /\ Answer(r, 403, "Invalid signature")

\* C2: when the handler reads enabled = false, a correctly signed lead or
\* purchase request gets the disabled response (503) and causes no outbound
\* call and no log record.
C2_DisabledShortCircuit ==
    \A r \in Webhooks :
        Ended(r) /\ ReadDisabled(r) /\ SignatureValid(r) /\ LeadOrPurchase(r) =>
            Answer(r, 503, "Webhook disabled") /\ NoEffects(r)

\* A correctly signed lead request with a contact has met a disabled store.
C2_Witness ==
    \E r \in Webhooks :
        /\ Ended(r) /\ ReadDisabled(r) /\ SignatureValid(r)
        /\ procs[r].body.type = Some("lead") /\ Has(procs[r].body.contact)
        /\ Answer(r, 503, "Webhook disabled")

\* Every log record the store holds, in memory or on file, and every record
\* ever pushed.
AllRecords ==
    (IF Has(dbData) THEN {Val(dbData).logs[i] : i \in 1..Len(Val(dbData).logs)} ELSE {})
        \cup (IF Has(file) THEN {Val(file).logs[i] : i \in 1..Len(Val(file).logs)} ELSE {})
        \cup UNION {{pushes[r][i] : i \in 1..Len(pushes[r])} : r \in Procs}

LogTypesCanonical == \A rec \in AllRecords : rec.type \in {"Lead", "Purchase"}

\* C3 as stated: every correctly signed request whose type is not exactly
\* 'lead' or 'purchase' is answered 200 'Ignored event' and causes no outbound
\* call and no log record; every log record has type Lead or Purchase.
C3_UnclassifiedIgnoredAlways ==
    /\ \A r \in Webhooks :
          Ended(r) /\ SignatureValid(r) /\ ~LeadOrPurchase(r) =>
              Answer(r, 200, "Ignored event") /\ NoEffects(r)
    /\ LogTypesCanonical

\* C3 amended: the same, for requests whose handler read enabled = true (with
\* enabled = false the answer is 503, still without call or log record).
C3_UnclassifiedIgnored ==
    /\ \A r \in Webhooks :
          Ended(r) /\ SignatureValid(r) /\ ~LeadOrPurchase(r) =>
              /\ NoEffects(r)
              /\ ReadEnabled(r) => Answer(r, 200, "Ignored event")
              /\ ReadDisabled(r) => Answer(r, 503, "Webhook disabled")
              /\ ReadEnabled(r) \/ ReadDisabled(r)
    /\ LogTypesCanonical

\* A correctly signed request of type 'Lead' (a casing variant) has been
\* acknowledged as ignored.
C3_Witness ==
    \E r \in Webhooks :
        /\ Ended(r) /\ ReadEnabled(r) /\ SignatureValid(r)
        /\ procs[r].body.type = Some("Lead")
        /\ Answer(r, 200, "Ignored event")

\* The handler classified the request as Lead or Purchase.
WasClassified(r) == Has(procs[r].eventName)

\* C4 as stated: every request that is enabled, authenticated and classified
\* has exactly one log record appended for it, and only after both dispatch
\* attempts have completed.
C4_OneLogRecordAfterBothDispatches ==
    \A r \in Webhooks :
        /\ Ended(r) /\ ReadEnabled(r) /\ SignatureValid(r) /\ LeadOrPurchase(r) =>
              Len(pushes[r]) = 1
        /\ Len(pushes[r]) <= 1
        /\ pushes[r] # <<>> =>
              /\ Len(metaCalls[r]) = 1 /\ procs[r].metaOutcome.kind # "none"
              /\ Len(ga4Calls[r]) = 1 /\ procs[r].ga4Outcome.kind # "none"

\* C5 as stated: for every classified and enabled request each destination is
\* attempted exactly once, whatever the outcome of the other attempt, and
\* never more than once.
C5_EachDestinationAttemptedOnce ==
    \A r \in Webhooks :
        /\ Ended(r) /\ ReadEnabled(r) /\ WasClassified(r) =>
              Len(metaCalls[r]) = 1 /\ Len(ga4Calls[r]) = 1
        /\ Len(metaCalls[r]) <= 1 /\ Len(ga4Calls[r]) <= 1
        /\ procs[r].metaOutcome.kind \in {"ok", "http", "network"} /\ Ended(r) =>
              Len(ga4Calls[r]) = 1

\* C6 as stated: every enabled, authenticated, classified request is answered
\* 200 {success: true}, whatever the outcome of either call; a failure
\* response is only ever 403 or 503.
C6_DeliveryFailuresAbsorbed ==
    \A r \in Webhooks :
        /\ Ended(r) /\ ReadEnabled(r) /\ SignatureValid(r) /\ LeadOrPurchase(r) =>
              Answer(r, 200, "success")
        /\ procs[r].resp # NoResponse =>
              \/ procs[r].resp.status = 200
              \/ procs[r].resp.status = 403 /\ ~SignatureValid(r)
              \/ procs[r].resp.status = 503 /\ ReadDisabled(r)

\* The status a log record holds for a call that ended with outcome o, as C7
\* states it: the remote status code on success, 'error' on failure.
ClaimedStatus(o) == IF o.kind = "ok" THEN Some(o.status) ELSE ErrorSentinel

\* The status it holds in fact: the remote status code whenever the remote
\* side answered (2xx or not), 'error' when no response came.
RecordedStatus(o) == IF o.kind \in {"ok", "http"} THEN Some(o.status) ELSE ErrorSentinel

\* C7 as stated: in the log record of a processed request each destination's
\* status is the remote status code when the call succeeded and 'error' when
\* it failed (network error or non-2xx response).
C7_ErrorSentinelOnEveryFailure ==
    \A r \in Webhooks : \A i \in 1..Len(pushes[r]) :
        /\ pushes[r][i].metaStatus = ClaimedStatus(procs[r].metaOutcome)
        /\ pushes[r][i].ga4Status = ClaimedStatus(procs[r].ga4Outcome)

\* C7 amended: each destination's status is the remote status code when the
\* remote side answered, with a 2xx or with a non-2xx status, and 'error' only
\* when the call failed without a response; so when exactly one destination
\* fails without a response the record holds one 'error' and one number.
C7_StatusPerDestination ==
    \A r \in Webhooks : \A i \in 1..Len(pushes[r]) :
        /\ pushes[r][i].metaStatus = RecordedStatus(procs[r].metaOutcome)
        /\ pushes[r][i].ga4Status = RecordedStatus(procs[r].ga4Outcome)
        /\ procs[r].metaOutcome.kind # "none" /\ procs[r].ga4Outcome.kind # "none"

\* A record of a request whose call to Meta got a non-2xx response and whose
\* call to GA4 succeeded: it holds two numbers.
C7_Witness ==
    \E r \in Webhooks :
        /\ Len(pushes[r]) = 1
        /\ procs[r].metaOutcome.kind = "http" /\ procs[r].ga4Outcome.kind = "ok"
        /\ Has(pushes[r][1].metaStatus) /\ Has(pushes[r][1].ga4Status)

\* C8 as stated: the call to GA4 need not wait for the call to Meta: while the
\* call to Meta is in flight the handler can issue the call to GA4.
C8_NoOrderingDependency ==
    \A r \in Webhooks : procs[r].pc = "meta" => ENABLED sendToGA4(r)

\* C8 amended: the two calls of a request are strictly ordered.  The call to
\* GA4 is issued only after the call to Meta has completed, so the two are
\* never in flight together; it is issued whatever the outcome of the call to
\* Meta was.
C8_GA4AfterMetaCompletes ==
    \A r \in Webhooks :
        /\ \A i \in 1..Len(ga4Calls[r]) : ~ga4Calls[r][i].metaPending
        /\ \A i \in 1..Len(metaCalls[r]) : metaCalls[r][i].ga4Sent = 0
        /\ procs[r].pc = "meta" => ga4Calls[r] = <<>>
        /\ procs[r].pc = "ga4" => procs[r].metaOutcome.kind \in {"ok", "http", "network"}

\* The call to GA4 is in flight after the call to Meta failed.
C8_Witness ==
    \E r \in Webhooks :
        /\ procs[r].pc = "ga4" /\ Len(ga4Calls[r]) = 1
        /\ procs[r].metaOutcome.kind = "network"

\* The normal form of an e-mail address: what lies between its first and its
\* last non-blank character, in lower case.
LowerOf(c) == CASE c = "A" -> "a" [] c = "B" -> "b" [] OTHER -> c

NormalEmail(s) ==
    LET inked == {i \in 1..Len(s) : s[i] # " "}
    IN IF inked = {} THEN <<>>
       ELSE LET first == CHOOSE i \in inked : \A j \in inked : i <= j
                last == CHOOSE i \in inked : \A j \in inked : j <= i
            IN [k \in 1..(last - first + 1) |-> LowerOf(s[first + k - 1])]

\* The normal form of a phone number: its digits, in order.
IsDigit(c) == c \in {"0", "1", "2", "3", "4", "5", "6", "7", "8", "9"}
NormalPhone(s) == SelectSeq(s, IsDigit)

\* A contact value was supplied: the key is there and its value is not empty.
Supplied(o) == Has(o) /\ Val(o) # <<>>

ContactOf(r) == Val(procs[r].body.contact)

\* Two optional raw values have the same normal form under norm.
SameNormal(o1, o2, norm(_)) ==
    \/ ~Supplied(o1) /\ ~Supplied(o2)
    \/ Supplied(o1) /\ Supplied(o2) /\ norm(Val(o1)) = norm(Val(o2))

\* The requests that have sent a payload to Meta.
Senders == {r \in Webhooks : metaCalls[r] # <<>>}

IdentitySent(r) == metaCalls[r][1].payload.user_data

C10_CommerceIffAmountSupplied ==
    \A r \in Webhooks : \A i \in 1..Len(metaCalls[r]) :
        LET f == procs[r].body.custom_fields
            cd == metaCalls[r][i].payload.custom_data
        IN cd = IF Has(f) /\ Has(Val(f).amount)
                THEN [value |-> Val(f).amount,
                      currency |-> IF Has(Val(f).currency) THEN Val(f).currency
                                   ELSE Some("USD")]
                ELSE NoCustomData

\* The log as the store holds it: the logs array of db.json.
StoredLog == IF Has(file) THEN Val(file).logs ELSE <<>>

\* Where a record stands in the stored log.
Positions(rec) == {i \in 1..Len(StoredLog) : StoredLog[i] = rec}

\* The request has appended its log record and has been answered.
Logged(r) ==
    /\ procs[r].kind = "webhook" /\ procs[r].pc = "done"
    /\ Answer(r, 200, "success") /\ Len(pushes[r]) = 1

RecordOf(r) == pushes[r][1]

\* C11 as stated: once a request has appended its log record and been
\* answered, the stored log holds that record, unchanged and once, in every
\* later state, and the records of answered requests stand in the order in
\* which they were appended, whatever other requests re-read or write the
\* store meanwhile.
C11_LogAppendOnly ==
    \A r1 \in Procs :
        Logged(r1) =>
            /\ Cardinality(Positions(RecordOf(r1))) = 1
            /\ \A r2 \in Procs :
                  Logged(r2) /\ RecordOf(r1).timestamp < RecordOf(r2).timestamp =>
                      \A i \in Positions(RecordOf(r1)) : \A j \in Positions(RecordOf(r2)) : i < j

\* What the store held as config.enabled when each call of request r was issued.
StoreAtCalls(r) ==
    {metaCalls[r][i].store : i \in 1..Len(metaCalls[r])}
        \cup {ga4Calls[r][i].store : i \in 1..Len(ga4Calls[r])}

\* C12 as stated: no call to either destination is issued at a moment when the
\* stored config has enabled = false, the second call of a request in flight
\* included: whenever a call is issued, the store has enabled = true (on file
\* or in memory).
C12_NoCallWhileDisabled ==
    \A r \in Webhooks : \A st \in StoreAtCalls(r) : st.file \/ st.mem

\* C12 amended: the enabled flag is read once per request, before its first
\* dispatch attempt.  Every call belongs to a request whose handler read
\* enabled = true; the call to Meta is issued at that read, with
\* db.data.config.enabled = true; the call to GA4 follows the call to Meta of
\* the same request without a new read of the flag.
C12_FlagReadOncePerRequest ==
    \A r \in Webhooks :
        /\ metaCalls[r] # <<>> \/ ga4Calls[r] # <<>> => ReadEnabled(r)
        /\ \A i \in 1..Len(metaCalls[r]) : metaCalls[r][i].store.mem
        /\ Len(ga4Calls[r]) <= Len(metaCalls[r])
        /\ ReadDisabled(r) => StoreAtCalls(r) = {}

\* A request that was in flight when an administrator disabled forwarding has
\* issued its call to GA4 with enabled = false on file and in memory, and has
\* been answered 200.
C12_Witness ==
    \E r \in Webhooks : \E c \in Procs :
        /\ procs[c].kind = "config" /\ procs[c].pc = "done" /\ ~Coerce(procs[c].cfgValue)
        /\ Len(metaCalls[r]) = 1 /\ metaCalls[r][1].store = [file |-> TRUE, mem |-> TRUE]
        /\ Len(ga4Calls[r]) = 1 /\ ga4Calls[r][1].store = [file |-> FALSE, mem |-> FALSE]
        /\ Answer(r, 200, "success")

\* The admin config operations that have been answered.
ConfigsAnswered == {c \in Procs : procs[c].kind = "config" /\ procs[c].pc = "done"}

\* c is the only admin config operation so far: no other one precedes,
\* overlaps or follows it.
OnlyConfig(c) == \A q \in Procs \ {c} : procs[q].kind # "config"

\* C13 as stated, for its flag: an answered admin config operation with value
\* v has answered with the boolean coercion of v, and the stored enabled flag
\* is that value in every state until the next admin config operation,
\* whatever webhook requests and admin log reads are interleaved with it.
C13_ConfigSticks ==
    \A c \in ConfigsAnswered :
        OnlyConfig(c) =>
            /\ Val(procs[c].view).enabled = Coerce(procs[c].cfgValue)
            /\ Val(file).enabled = Coerce(procs[c].cfgValue)

\* The four responses of the webhook.
WebhookResponses ==
    {[status |-> 503, body |-> "Webhook disabled"],
     [status |-> 403, body |-> "Invalid signature"],
     [status |-> 200, body |-> "Ignored event"],
     [status |-> 200, body |-> "success"]}

Answered(r) == procs[r].pc = "done" /\ procs[r].resp \in WebhookResponses

\* C14 as stated: every webhook request received is eventually answered, with
\* 503, 403, 200 'Ignored event' or 200 {success: true}, whatever its body
\* holds (a lead or purchase event without a contact object included), given
\* that every outbound call and every store access completes.
C14_EveryWebhookAnswered ==
    \A r \in Procs : (procs[r].kind = "webhook") ~> Answered(r)

====
